---- MODULE Spec2Model ----
(***************************************************************************)
(* A model of streetartcities2gpx.py: merge JSON sources (items[]) into a  *)
(* single GPX 1.1 file of waypoints.                                       *)
(*                                                                         *)
(* Python values are records tagged with their type.  A Python str is a    *)
(* sequence of tokens; a token is one character, or a run of characters    *)
(* that no operation of the program splits ("wpt ", "amp;", "json", ...).  *)
(* A dict is read with .get(): an absent key and a null value both read as *)
(* None.  An f-string is a sequence of segments, a literal part ("lit") or *)
(* a substituted value ("sub"); Flatten gives the text.                    *)
(***************************************************************************)
EXTENDS Integers, Sequences, FiniteSets, TLC

VARIABLES
    pc,         \* the position of main()
    args,       \* the parsed command line: sources, output, no_dedup
    idx,        \* how many sources the loop of line 131 has finished
    data,       \* the document load_input returned for the current source
    all_items,  \* line 129
    any_meta,   \* line 130
    gpx,        \* the text build_gpx returned, as f-string segments
    out_path,   \* the Path derive_output_path returned
    exit_code,  \* the exit status of the process, Running before it ends
    printed,    \* the waypoint count of the confirmation line, line 160
    docs,       \* history: what each read returned, in order
    trace       \* history: the reads, the outcomes of the checks, the writes

vars == <<pc, args, idx, data, all_items, any_meta, gpx, out_path,
          exit_code, printed, docs, trace>>

(***************************************************************************)
(* Python values                                                           *)
(***************************************************************************)
None == [t |-> "None", n |-> 0, s |-> <<>>]
PBool(b) == [t |-> "bool", n |-> IF b THEN 1 ELSE 0, s |-> <<>>]
PInt(n) == [t |-> "int", n |-> n, s |-> <<>>]
\* a float, held as a count of 10^-8 units (non-negative)
PFloat(n) == [t |-> "float", n |-> n, s |-> <<>>]
PStr(s) == [t |-> "str", n |-> 0, s |-> s]
\* a JSON object used where a scalar or a list is expected; n is its size
PDict(n) == [t |-> "dict", n |-> n, s |-> <<>>]
PList(l) == [t |-> "list", n |-> 0, s |-> <<>>, l |-> l]

FloatScale == 10 * 10000000

\* bool(v): Python truthiness
Truthy(v) ==
    CASE v.t = "None" -> FALSE
      [] v.t \in {"bool", "int", "float", "dict"} -> v.n # 0
      [] v.t = "str" -> v.s # <<>>
      [] v.t = "list" -> v.l # <<>>

\* a or b
PyOr(a, b) == IF Truthy(a) THEN a ELSE b

\* isinstance(v, (int, float)): bool is a subclass of int
IsIntOrFloat(v) == v.t \in {"bool", "int", "float"}

\* isinstance(v, list)
IsList(v) == v.t = "list"

Digits == <<"0", "1", "2", "3", "4", "5", "6", "7", "8", "9">>

RECURSIVE NatStr(_)
NatStr(n) ==
    IF n < 10 THEN <<Digits[n + 1]>>
    ELSE NatStr(n \div 10) \o <<Digits[(n % 10) + 1]>>

\* the k low decimal digits of n, zero padded
RECURSIVE Padded(_, _)
Padded(n, k) ==
    IF k = 0 THEN <<>> ELSE Padded(n \div 10, k - 1) \o <<Digits[(n % 10) + 1]>>

RECURSIVE StripZeros(_)
StripZeros(d) ==
    IF Len(d) > 1 /\ d[Len(d)] = "0" THEN StripZeros(SubSeq(d, 1, Len(d) - 1))
    ELSE d

\* repr of a float: the shortest decimal text, at least one fraction digit
FloatRepr(n) ==
    NatStr(n \div FloatScale) \o <<".">> \o StripZeros(Padded(n % FloatScale, 8))

\* str(v)
PyStr(v) ==
    CASE v.t = "None" -> <<"None">>
      [] v.t = "bool" -> IF v.n = 1 THEN <<"True">> ELSE <<"False">>
      [] v.t = "int" -> NatStr(v.n)
      [] v.t = "float" -> FloatRepr(v.n)
      [] v.t = "str" -> v.s
      [] OTHER -> <<"{", "}">>

\* the 7 of f"{lat:.7f}"
GeoDecimals == 7

RECURSIVE Pow10(_)
Pow10(k) == IF k = 0 THEN 1 ELSE 10 * Pow10(k - 1)

\* f"{v:.7f}" for an int, a bool or a float: round to GeoDecimals decimals
\* (the values of the model are never exactly half way)
Format7f(v) ==
    LET units == IF v.t = "float" THEN v.n ELSE v.n * FloatScale
        drop == FloatScale \div Pow10(GeoDecimals)
        q == (units + (drop \div 2)) \div drop
    IN  NatStr(q \div Pow10(GeoDecimals)) \o <<".">>
            \o Padded(q % Pow10(GeoDecimals), GeoDecimals)

(***************************************************************************)
(* html.escape and esc, lines 11-15                                        *)
(***************************************************************************)
\* s.replace(tok, rep) for a one-token pattern
RECURSIVE Replace(_, _, _)
Replace(s, tok, rep) ==
    IF s = <<>> THEN <<>>
    ELSE (IF Head(s) = tok THEN rep ELSE <<Head(s)>>) \o Replace(Tail(s), tok, rep)

\* html.escape(s, quote): & first, then < and >, then the quotes
xmlesc(s, quote) ==
    LET s1 == Replace(s, "&", <<"&", "amp;">>)
        s2 == Replace(s1, "<", <<"&", "lt;">>)
        s3 == Replace(s2, ">", <<"&", "gt;">>)
        s4 == Replace(s3, "\"", <<"&", "quot;">>)
        s5 == Replace(s4, "'", <<"&", "#x27;">>)
    IN  IF quote THEN s5 ELSE s3

\* esc with quote=False: the quotes are left as they are
esc_noquote(v) == xmlesc(IF v = None THEN <<>> ELSE PyStr(v), FALSE)

esc(v) == xmlesc(IF v = None THEN <<>> ELSE PyStr(v), TRUE)

(***************************************************************************)
(* f-strings                                                               *)
(***************************************************************************)
Lit(s) == [k |-> "lit", f |-> "", s |-> s]
Sub(f, s) == [k |-> "sub", f |-> f, s |-> s]

RECURSIVE Flatten(_)
Flatten(segs) ==
    IF segs = <<>> THEN <<>> ELSE Head(segs).s \o Flatten(Tail(segs))

\* sep.join(parts)
RECURSIVE Join(_, _)
Join(sep, parts) ==
    IF parts = <<>> THEN <<>>
    ELSE IF Len(parts) = 1 THEN parts[1]
    ELSE parts[1] \o sep \o Join(sep, Tail(parts))

(***************************************************************************)
(* Items.  An item is a JSON object; its fields are read with .get().      *)
(***************************************************************************)
Get(d, key) == IF key \in DOMAIN d THEN d[key] ELSE None

EmptyDict == PDict(0)

Location(lat, lng, address) ==
    [t |-> "dict", n |-> 3, s |-> <<>>, lat |-> lat, lng |-> lng, address |-> address]

EmptyStr == PStr(<<>>)

(***************************************************************************)
(* build_wpt, lines 25-73.  NoWpt is the None it returns.                  *)
(***************************************************************************)
NoWpt == <<>>

\* title or iid or 'Untitled', line 67
name_text(title, iid) == PyOr(PyOr(title, iid), PStr(<<"Untitled">>))

build_wpt_segments(item, lat, lon) ==
    LET loc == PyOr(Get(item, "location"), EmptyDict)
        title == PyOr(Get(item, "title"), EmptyStr)
        href == PyOr(Get(item, "href"), EmptyStr)
        marker == PyOr(Get(item, "marker"), EmptyStr)
        addr == PyOr(Get(loc, "address"), EmptyStr)
        typ == PyOr(Get(item, "type"), EmptyStr)
        status == PyOr(Get(item, "status"), EmptyStr)
        site_id == PyOr(Get(item, "siteId"), EmptyStr)
        iid == PyOr(Get(item, "id"), EmptyStr)
        desc_parts ==
            (IF Truthy(addr) THEN <<PyStr(addr)>> ELSE <<>>)
            \o (IF Truthy(marker) THEN << <<"marker: ">> \o PyStr(marker) >> ELSE <<>>)
        desc == PStr(Join(<<"\n">>, desc_parts))
        link_block ==
            IF Truthy(href)
            THEN << Lit(<<"\n", "    ", "<", "link ", "href=", "\"">>),
                    Sub("href", esc(href)),
                    Lit(<<"\"", ">", "<", "text", ">">>),
                    Sub("linktext", esc(PyOr(PyOr(title, iid), href))),
                    Lit(<<"<", "/text", ">", "<", "/link", ">">>) >>
            ELSE <<>>
        ext(tag, v) ==
            IF Truthy(v)
            THEN << Lit(<<"<", tag, ">">>), Sub(tag, esc(v)),
                    Lit(<<"<", "/", tag, ">">>) >>
            ELSE <<>>
        ext_fields == ext("sa:id", iid) \o ext("sa:siteId", site_id)
                        \o ext("sa:status", status) \o ext("sa:marker", marker)
        extensions_block ==
            IF ext_fields # <<>>
            THEN << Lit(<<"\n", "    ", "<", "extensions", ">", "\n", "      ">>) >>
                 \o ext_fields
                 \o << Lit(<<"\n", "    ", "<", "/extensions", ">">>) >>
            ELSE <<>>
        type_block ==
            IF Truthy(typ)
            THEN << Lit(<<"\n", "    ", "<", "type", ">">>), Sub("type", esc(typ)),
                    Lit(<<"<", "/type", ">">>) >>
            ELSE <<>>
    IN  << Lit(<<"  ", "<", "wpt ", "lat=", "\"">>), Sub("lat", PyStr(lat)),
           Lit(<<"\"", " ", "lon=", "\"">>), Sub("lon", PyStr(lon)),
           Lit(<<"\"", ">", "\n">>),
           Lit(<<"    ", "<", "name", ">">>),
           Sub("name", esc(name_text(title, iid))),
           Lit(<<"<", "/name", ">">>) >>
        \o link_block
        \o << Lit(<<"\n">>),
              Lit(<<"    ", "<", "desc", ">">>), Sub("desc", esc(desc)),
              Lit(<<"<", "/desc", ">">>) >>
        \o type_block
        \o extensions_block
        \o << Lit(<<"\n">>), Lit(<<"  ", "<", "/wpt", ">">>) >>

build_wpt(item) ==
    LET loc == PyOr(Get(item, "location"), EmptyDict)
        lat == Get(loc, "lat")
        lon == Get(loc, "lng")
    IN  IF ~IsIntOrFloat(lat) \/ ~IsIntOrFloat(lon) THEN NoWpt
        ELSE << build_wpt_segments(item, lat, lon) >>

\* the truth test of "if w" on build_wpt's result, line 91
WptTruthy(w) == w # NoWpt /\ Flatten(w[1]) # <<>>

(***************************************************************************)
(* build_gpx, lines 75-93                                                  *)
(***************************************************************************)
\* datetime.now(timezone.utc).astimezone().isoformat(), one value per run
now_iso == PStr(<<"2024", "-", "01", "-", "01", "T", "00", ":", "00", ":", "00", "+", "00", ":", "00">>)

RECURSIVE WptsOf(_)
WptsOf(items) ==
    IF items = <<>> THEN <<>>
    ELSE LET w == build_wpt(Head(items))
         IN  (IF WptTruthy(w) THEN <<w[1]>> ELSE <<>>) \o WptsOf(Tail(items))

\* "\n".join(wpts) over segment lists
RECURSIVE JoinSegs(_)
JoinSegs(wpts) ==
    IF wpts = <<>> THEN <<>>
    ELSE IF Len(wpts) = 1 THEN wpts[1]
    ELSE wpts[1] \o <<Lit(<<"\n">>)>> \o JoinSegs(Tail(wpts))

gpx_head(gen) ==
    << Lit(<<"<", "?xml ", "version=", "\"", "1.0", "\"", " ", "encoding=", "\"",
             "UTF-8", "\"", "?", ">", "\n",
             "<", "gpx ", "version=", "\"", "1.1", "\"", "\n",
             "     ", "creator=", "\"">>),
       Sub("creator", esc(gen)),
       Lit(<<"\"", "\n",
             "     ", "xmlns=", "\"", "http://www.topografix.com/GPX/1/1", "\"", "\n",
             "     ", "xmlns:xsi=", "\"", "http://www.w3.org/2001/XMLSchema-instance",
             "\"", "\n",
             "     ", "xmlns:sa=", "\"", "https://streetart.media/ns/1.0", "\"", "\n",
             "     ", "xsi:schemaLocation=", "\"", "http://www.topografix.com/GPX/1/1",
             "\n", "                         ",
             "http://www.topografix.com/GPX/1/1/gpx.xsd", "\"", ">", "\n",
             "  ", "<", "metadata", ">", "\n",
             "    ", "<", "time", ">">>),
       Sub("time", esc(now_iso)),
       Lit(<<"<", "/time", ">", "\n", "  ", "<", "/metadata", ">", "\n">>) >>

\* gen = (meta_any or {}).get("generator") or "json2gpx", line 77
generator_of(meta_any) ==
    PyOr(Get(PyOr(meta_any, EmptyDict), "generator"), PStr(<<"json2gpx">>))

build_gpx(items, meta_any) ==
    LET gen == generator_of(meta_any)
        wpts == WptsOf(items)
        tail == << Lit(<<"\n", "<", "/gpx", ">", "\n">>) >>
    IN  gpx_head(gen) \o JoinSegs(wpts) \o tail

\* text.count('<wpt '), line 160: the occurrences of "<wpt " cannot overlap
CountWpt(text) ==
    Cardinality({i \in 1..(Len(text) - 1) : text[i] = "<" /\ text[i + 1] = "wpt "})

(***************************************************************************)
(* item_dedup_key, lines 108-118.  A key is a tuple of optional strings:   *)
(* Some(s) is a str, Absent is None.                                       *)
(***************************************************************************)
Some(s) == <<s>>
Absent == <<>>

item_dedup_key(item) ==
    LET iid == Get(item, "id")
        loc == PyOr(Get(item, "location"), EmptyDict)
        lat == Get(loc, "lat")
        lon == Get(loc, "lng")
        title == PyOr(Get(item, "title"), EmptyStr)
    IN  IF iid # None THEN << Some(<<"id">>), Some(PyStr(iid)) >>
        ELSE << Some(<<"geo">>),
                IF IsIntOrFloat(lat) THEN Some(Format7f(lat)) ELSE Absent,
                IF IsIntOrFloat(lon) THEN Some(Format7f(lon)) ELSE Absent,
                Some(PyStr(title)) >>

\* the loop without seen.add(k)
dedup_loop_never_adds(items, seen) ==
    SelectSeq(items, LAMBDA it : item_dedup_key(it) \notin seen)

\* the loop of lines 146-154
RECURSIVE dedup_loop(_, _)
dedup_loop(items, seen) ==
    IF items = <<>> THEN <<>>
    ELSE LET k == item_dedup_key(Head(items))
         IN  IF k \in seen THEN dedup_loop(Tail(items), seen)
             ELSE <<Head(items)>> \o dedup_loop(Tail(items), seen \cup {k})

(***************************************************************************)
(* pathlib and urllib.parse, as derive_output_path uses them               *)
(***************************************************************************)
\* s.lower(): the scheme tokens are the only ones with upper case
LowerTok(c) ==
    CASE c = "HTTP://" -> "http://"
      [] c = "HTTPS://" -> "https://"
      [] OTHER -> c

\* first.lower().startswith(("http://", "https://"))
StartsWithHttp(s) == s # <<>> /\ LowerTok(s[1]) \in {"http://", "https://"}

RECURSIVE TakeUntil(_, _)
TakeUntil(s, stops) ==
    IF s = <<>> \/ Head(s) \in stops THEN <<>>
    ELSE <<Head(s)>> \o TakeUntil(Tail(s), stops)

RECURSIVE DropUntil(_, _)
DropUntil(s, stops) ==
    IF s = <<>> \/ Head(s) \in stops THEN s ELSE DropUntil(Tail(s), stops)

\* urlparse(url).path: what follows the scheme and the host, up to the query
UrlPath(url) == TakeUntil(DropUntil(Tail(url), {"/", "?"}), {"?"})

\* s.split("/")
RECURSIVE Split(_)
Split(s) ==
    LET first == TakeUntil(s, {"/"})
        rest == DropUntil(s, {"/"})
    IN  IF rest = <<>> THEN <<first>> ELSE <<first>> \o Split(Tail(rest))

RECURSIVE Components(_)
Components(parts) ==
    IF parts = <<>> THEN <<>>
    ELSE (IF Head(parts) \in {<<>>, <<".">>} THEN <<>> ELSE <<Head(parts)>>)
            \o Components(Tail(parts))

\* Path(s): the root and the components, empty and "." components dropped
ParsePath(s) ==
    [err |-> FALSE, root |-> (s # <<>> /\ s[1] = "/"), parts |-> Components(Split(s))]

ValueError == [err |-> TRUE, root |-> FALSE, parts |-> <<>>]

\* p.name
PathName(p) == IF p.parts = <<>> THEN <<>> ELSE p.parts[Len(p.parts)]

\* name.rfind("."), counted from 1; 0 when there is none
RECURSIVE RFindDot(_)
RFindDot(name) ==
    IF name = <<>> THEN 0
    ELSE IF name[Len(name)] = "." THEN Len(name)
    ELSE RFindDot(SubSeq(name, 1, Len(name) - 1))

\* p.suffix: from the last dot, unless it is the first or the last character
PathSuffix(p) ==
    LET name == PathName(p)
        i == RFindDot(name)
    IN  IF 1 < i /\ i < Len(name) THEN SubSeq(name, i, Len(name)) ELSE <<>>

\* p.stem
PathStem(p) ==
    LET name == PathName(p)
        i == RFindDot(name)
    IN  IF 1 < i /\ i < Len(name) THEN SubSeq(name, 1, i - 1) ELSE name

\* p.with_name(name)
with_name(p, name) ==
    IF PathName(p) = <<>> THEN ValueError
    ELSE [p EXCEPT !.parts = SubSeq(p.parts, 1, Len(p.parts) - 1) \o <<name>>]

\* p.with_suffix(suffix)
with_suffix(p, suffix) ==
    LET name == PathName(p)
        old == PathSuffix(p)
    IN  IF name = <<>> THEN ValueError
        ELSE with_name(p, SubSeq(name, 1, Len(name) - Len(old)) \o suffix)

(***************************************************************************)
(* derive_output_path, lines 95-106                                        *)
(***************************************************************************)
\* the suffix chosen by len(sources) > 2 instead of len(sources) > 1
derive_output_path_off_by_one(sources, explicit) ==
    IF Truthy(explicit) THEN ParsePath(explicit.s)
    ELSE LET first == sources[1]
             tail == IF Len(sources) > 2 THEN <<"_merged", ".", "gpx">>
                     ELSE <<".", "gpx">>
         IN  IF StartsWithHttp(first)
             THEN LET parsed_stem == PathStem(ParsePath(UrlPath(first)))
                  IN  ParsePath((IF parsed_stem # <<>> THEN parsed_stem
                                 ELSE <<"merged">>) \o tail)
             ELSE with_name(ParsePath(first), PathStem(ParsePath(first)) \o tail)

derive_output_path(sources, explicit) ==
    IF Truthy(explicit) THEN ParsePath(explicit.s)
    ELSE LET first == sources[1]
         IN  IF StartsWithHttp(first)
             THEN LET parsed_stem == PathStem(ParsePath(UrlPath(first)))
                      stem == IF parsed_stem # <<>> THEN parsed_stem ELSE <<"merged">>
                  IN  IF Len(sources) > 1
                      THEN ParsePath(stem \o <<"_merged", ".", "gpx">>)
                      ELSE ParsePath(stem \o <<".", "gpx">>)
             ELSE LET p == ParsePath(first)
                  IN  IF Len(sources) > 1
                      THEN with_name(p, PathStem(p) \o <<"_merged", ".", "gpx">>)
                      ELSE with_suffix(p, <<".", "gpx">>)

(***************************************************************************)
(* Inputs                                                                  *)
(***************************************************************************)
MaxSources == 2
MaxConcat == 3
MaxText == 2
MaxPathLen == 3

SeqsUpTo(S, n) == UNION {[1..k -> S] : k \in 0..n}

Item(id, title, lat, lng) ==
    [t |-> "dict", n |-> 3, s |-> <<>>, id |-> id, title |-> title,
     location |-> Location(lat, lng, None)]

\* an item with no "location" key
ItemNoLocation(id, title) ==
    [t |-> "dict", n |-> 2, s |-> <<>>, id |-> id, title |-> title]

FullItem(id, title, href, marker, typ, status, siteId, lat, lng, address) ==
    [t |-> "dict", n |-> 8, s |-> <<>>, id |-> id, title |-> title, href |-> href,
     marker |-> marker, type |-> typ, status |-> status, siteId |-> siteId,
     location |-> Location(lat, lng, address)]

Meta(generator) == [t |-> "dict", n |-> 1, s |-> <<>>, generator |-> generator]

Document(items, meta) ==
    [t |-> "dict", n |-> 2, s |-> <<>>, items |-> items] @@ ("@meta" :> meta)

\* {"foo": []}: no "items" key
DocumentNoItems(meta) ==
    [t |-> "dict", n |-> 2, s |-> <<>>, foo |-> PList(<<>>)] @@ ("@meta" :> meta)

\* the two source names of a run of main: a local file and a URL
FileSource == <<"d", "/", "a", ".", "json">>
UrlSource == <<"https://", "h", "/", "b", ".", "json", "?", "q">>
SourceName(k) == IF k % 2 = 1 THEN FileSource ELSE UrlSource

ItemA == Item(PStr(<<"1">>), PStr(<<"A">>), PInt(1), PInt(2))
ItemB == ItemNoLocation(PInt(1), PStr(<<"B">>))
ItemListsMain == {<<>>, <<ItemA>>, <<ItemB>>, <<ItemA, ItemB>>}

\* the values of "items" that are no list; None is a null or an absent key
NonLists ==
    {None, PStr(<<>>), PStr(<<"x">>), PInt(0), PInt(7), PBool(FALSE), PBool(TRUE),
     PDict(0), PDict(1)}

MetasMain == {None, EmptyDict, Meta(PStr(<<"g1">>)), Meta(PStr(<<"g2">>))}

\* what load_input returns: a JSON object, as line 137 expects; the items of a
\* list are JSON objects whose title is a string or null
DocsMain ==
    {Document(PList(l), m) : l \in ItemListsMain, m \in MetasMain}
    \cup {Document(v, m) : v \in NonLists, m \in {None, Meta(PStr(<<"g2">>))}}
    \cup {DocumentNoItems(None)}

ArgsMain ==
    {[sources |-> [k \in 1..n |-> SourceName(k)], output |-> o, no_dedup |-> nd] :
        n \in 1..MaxSources, o \in {None, PStr(<<"o", ".", "gpx">>)}, nd \in BOOLEAN}

(***************************************************************************)
(* main, lines 120-160                                                     *)
(***************************************************************************)
Running == 0 - 1
NoData == None
NoText == <<>>
NoPath == [err |-> FALSE, root |-> FALSE, parts |-> <<>>]
LoadError == [t |-> "exception", n |-> 0, s |-> <<>>]

Event(e, k) == [e |-> e, k |-> k]

Start(a) ==
    /\ pc = "loop"
    /\ args = a
    /\ idx = 0
    /\ data = NoData
    /\ all_items = <<>>
    /\ any_meta = None
    /\ gpx = NoText
    /\ out_path = NoPath
    /\ exit_code = Running
    /\ printed = 0
    /\ docs = <<>>
    /\ trace = <<>>

Init == \E a \in ArgsMain : Start(a)

\* sys.exit(code)
Exit(code) ==
    /\ pc' = "exit"
    /\ exit_code' = code

\* lines 132-133: load_input(src) returns a document
LoadOk ==
    /\ pc = "loop"
    /\ idx < Len(args.sources)
    /\ \E d \in DocsMain :
        /\ data' = d
        /\ docs' = Append(docs, d)
    /\ trace' = Append(trace, Event("read", idx + 1))
    /\ pc' = "check"
    /\ UNCHANGED <<args, idx, all_items, any_meta, gpx, out_path, exit_code, printed>>

\* a load failure that goes on with the next source
LoadFail_skips_source ==
    /\ pc = "loop"
    /\ idx < Len(args.sources)
    /\ docs' = Append(docs, LoadError)
    /\ trace' = Append(trace, Event("read", idx + 1)) \o <<Event("error", idx + 1)>>
    /\ idx' = idx + 1
    /\ pc' = IF idx + 1 = Len(args.sources) THEN "dedup" ELSE "loop"
    /\ UNCHANGED <<args, data, all_items, any_meta, gpx, out_path, exit_code, printed>>

\* lines 132-136: load_input(src) raises
LoadFail ==
    /\ pc = "loop"
    /\ idx < Len(args.sources)
    /\ docs' = Append(docs, LoadError)
    /\ trace' = Append(trace, Event("read", idx + 1)) \o <<Event("error", idx + 1)>>
    /\ Exit(1)
    /\ UNCHANGED <<args, idx, data, all_items, any_meta, gpx, out_path, printed>>

\* items = data.get("items") or [], line 137
items_of(d) == PyOr(Get(d, "items"), PList(<<>>))

\* the file written before the run ends with exit code 2
ItemsNotList_after_write ==
    /\ pc = "check"
    /\ ~IsList(items_of(data))
    /\ trace' = Append(trace, Event("write", 0)) \o <<Event("notlist", idx + 1)>>
    /\ Exit(2)
    /\ UNCHANGED <<args, idx, data, all_items, any_meta, gpx, out_path, printed, docs>>

\* lines 137-140: items is no list
ItemsNotList ==
    /\ pc = "check"
    /\ ~IsList(items_of(data))
    /\ trace' = Append(trace, Event("notlist", idx + 1))
    /\ Exit(2)
    /\ UNCHANGED <<args, idx, data, all_items, any_meta, gpx, out_path, printed, docs>>

\* the guard written as "if not any_meta"
keep_meta_if_falsy(meta, d) == IF ~Truthy(meta) THEN Get(d, "@meta") ELSE meta

\* lines 141-142: if any_meta is None: any_meta = data.get("@meta")
keep_meta(meta, d) == IF meta = None THEN Get(d, "@meta") ELSE meta

\* lines 137-143: the source passes the check and is merged
Accept ==
    /\ pc = "check"
    /\ IsList(items_of(data))
    /\ any_meta' = keep_meta(any_meta, data)
    /\ all_items' = all_items \o items_of(data).l
    /\ idx' = idx + 1
    /\ trace' = Append(trace, Event("accept", idx + 1))
    /\ pc' = IF idx + 1 = Len(args.sources) THEN "dedup" ELSE "loop"
    /\ UNCHANGED <<args, data, gpx, out_path, exit_code, printed, docs>>

\* lines 145-154
Dedup ==
    /\ pc = "dedup"
    /\ all_items' = IF ~args.no_dedup THEN dedup_loop(all_items, {}) ELSE all_items
    /\ pc' = "build"
    /\ UNCHANGED <<args, idx, data, any_meta, gpx, out_path, exit_code, printed, docs,
                   trace>>

\* lines 156-157
Build ==
    /\ pc = "build"
    /\ gpx' = build_gpx(all_items, any_meta)
    /\ out_path' = derive_output_path(args.sources, args.output)
    /\ pc' = "write"
    /\ UNCHANGED <<args, idx, data, all_items, any_meta, exit_code, printed, docs, trace>>

\* lines 158-160, and the return of main
Write ==
    /\ pc = "write"
    /\ trace' = Append(trace, Event("write", 0))
    /\ printed' = CountWpt(Flatten(gpx))
    /\ pc' = "done"
    /\ exit_code' = 0
    /\ UNCHANGED <<args, idx, data, all_items, any_meta, gpx, out_path, docs>>

Next == LoadOk \/ LoadFail \/ ItemsNotList \/ Accept \/ Dedup \/ Build \/ Write

Spec == Init /\ [][Next]_vars

(***************************************************************************)
(* The merge and the serializer on their own: main after the loop of lines *)
(* 131-143 has accepted one source.                                        *)
(***************************************************************************)
AfterLoop(a, ds) ==
    /\ pc = "dedup"
    /\ args = a
    /\ idx = Len(ds)
    /\ data = ds[Len(ds)]
    /\ exit_code = Running
    /\ gpx = NoText
    /\ out_path = NoPath
    /\ printed = 0
    /\ docs = ds
    /\ trace = [i \in 1..(2 * Len(ds)) |->
                    IF i % 2 = 1 THEN Event("read", (i + 1) \div 2)
                    ELSE Event("accept", i \div 2)]

OneSource(nd) == [sources |-> <<FileSource>>, output |-> None, no_dedup |-> nd]

\* items that share and that do not share a dedup key, with every kind of
\* coordinate: int, float, bool, str, null, no location
Special == <<"<", "wpt ">>
ItemsMerge ==
    { Item(PStr(<<"1">>), PStr(<<"A">>), PInt(1), PInt(2)),
      Item(PInt(1), PStr(<<"B">>), PInt(3), PInt(2)),
      Item(None, PStr(Special), PFloat(FloatScale + 4), PInt(2)),
      Item(None, PStr(Special), PInt(1), PFloat(2 * FloatScale)),
      Item(None, PStr(Special), PFloat(FloatScale + 6), PInt(2)),
      ItemNoLocation(None, None),
      Item(None, None, PBool(TRUE), PBool(FALSE)),
      Item(PInt(0), PStr(<<"A">>), PStr(<<"1">>), PInt(2)) }

InitMerge ==
    \E l \in SeqsUpTo(ItemsMerge, MaxConcat), m \in {None, Meta(PStr(Special))},
       nd \in BOOLEAN :
        /\ AfterLoop(OneSource(nd), <<Document(PList(l), m)>>)
        /\ all_items = l
        /\ any_meta = m

NextMerge == Dedup \/ Build \/ Write

SpecMerge == InitMerge /\ [][NextMerge]_vars

\* one item with every content of its text fields
TextTokens == {"<", ">", "&", "\"", "'", "wpt ", "lt;"}
Texts == {PStr(x) : x \in SeqsUpTo(TextTokens, MaxText)} \cup {None}
Example == PStr(<<"<", "A", " ", "&", " ", "B", ">">>)
Quoted == PStr(<<"\"", "&", "'", "<", "wpt ">>)
Ids == {None, PInt(0), PInt(7), PStr(<<>>), Quoted}
Coords == {<<PInt(1), PFloat(FloatScale + (FloatScale \div 2))>>, <<None, PInt(1)>>}

ItemsWpt ==
    {FullItem(id, title, Quoted, Quoted, Quoted, Quoted, Quoted, c[1], c[2], Quoted) :
        id \in Ids, title \in Texts \cup {Example}, c \in Coords}
    \cup
    {FullItem(id, Example, href, marker, typ, status, siteId, PInt(1), PInt(2), address) :
        id \in {None, Quoted}, href \in {None, Quoted}, marker \in {None, Quoted},
        typ \in {None, Quoted}, status \in {None, Quoted}, siteId \in {None, Quoted},
        address \in {None, Quoted}}

InitWpt ==
    \E it \in ItemsWpt, m \in {None, Meta(None), Meta(Quoted)} :
        /\ AfterLoop(OneSource(FALSE), <<Document(PList(<<it>>), m)>>)
        /\ all_items = <<it>>
        /\ any_meta = m

SpecWpt == InitWpt /\ [][NextMerge]_vars

(***************************************************************************)
(* derive_output_path on its own: main after the merge of sources that had *)
(* no items.  A local source that was read names a file: its last          *)
(* component is not empty.                                                 *)
(***************************************************************************)
PathTokens == {"a", ".", "/", "?"}
LocalSources ==
    {x \in SeqsUpTo(PathTokens, MaxPathLen) : PathName(ParsePath(x)) # <<>>}
UrlSources ==
    {<<scheme, "h">> \o x :
        scheme \in {"http://", "https://", "HTTP://"},
        x \in {y \in SeqsUpTo(PathTokens, MaxPathLen) : y = <<>> \/ y[1] \in {"/", "?"}}}
\* -o absent, -o "" and two paths
Outputs == {None, PStr(<<>>), PStr(<<"o", ".", "gpx">>), PStr(<<"d", "/", ".", "/", "o">>)}

ArgsPath ==
    {[sources |-> <<first>> \o [k \in 1..(n - 1) |-> SourceName(k)], output |-> o,
      no_dedup |-> FALSE] :
        first \in LocalSources \cup UrlSources, n \in 1..MaxSources, o \in Outputs}

InitPath ==
    \E a \in ArgsPath :
        /\ AfterLoop(a, [k \in 1..Len(a.sources) |-> Document(PList(<<>>), None)])
        /\ all_items = <<>>
        /\ any_meta = None

SpecPath == InitPath /\ [][NextMerge]_vars

(***************************************************************************)
(* Properties of a run of main                                             *)
(***************************************************************************)
Positions(e) == {i \in 1..Len(trace) : trace[i].e = e}
At(e, k) == {i \in 1..Len(trace) : trace[i] = Event(e, k)}
Ended == exit_code # Running

\* the documents whose check is over: all that were read, but the one under check
Checked == {k \in 1..Len(docs) : pc # "check" \/ k < Len(docs)}

\* C1: every source whose parsed JSON has no list-typed "items" (absent, null or
\* any non-list value) makes the run end with exit code 2 and without a write.
C1_NonListItemsExit2 ==
    \A k \in Checked :
        (docs[k] # LoadError /\ ~IsList(Get(docs[k], "items")))
            => (exit_code = 2 /\ Positions("write") = {})

\* C2: the output file is written at most once, only after every source was
\* loaded and passed the items check, and never in a run that ends non-zero.
C2_WriteOnceAfterAllSources ==
    /\ Cardinality(Positions("write")) <= 1
    /\ \A w \in Positions("write") : \A k \in 1..Len(args.sources) :
            /\ \E i \in At("read", k) : i < w
            /\ \E i \in At("accept", k) : i < w
    /\ (Ended /\ exit_code # 0) => Positions("write") = {}

C2_Witness ==
    /\ pc = "done"
    /\ Len(args.sources) > 1
    /\ Positions("write") # {}

\* the creator attribute of the generated text
Creator == SelectSeq(gpx, LAMBDA g : g.f = "creator")[1].s

\* C4 as stated: the @meta used for the output is that of the first source only,
\* whether or not the first source had one.
C4_OnlyFirstSourceMeta ==
    pc = "done" => Creator = esc(generator_of(Get(docs[1], "@meta")))

\* the sources whose document has an @meta that is not null
WithMeta == {k \in 1..Len(docs) : Get(docs[k], "@meta") # None}
FirstWithMeta == CHOOSE k \in WithMeta : \A j \in WithMeta : k <= j

\* C4 amended: the @meta used for the output is that of the first source, in
\* command-line order, whose @meta is present and not null (an empty object
\* counts); no source after that one is used, so a later source's @meta is used
\* exactly when no earlier source had one.
C4_FirstPresentMeta ==
    pc = "done" =>
        /\ any_meta = IF WithMeta = {} THEN None ELSE Get(docs[FirstWithMeta], "@meta")
        /\ Creator = esc(generator_of(any_meta))

C4_Witness ==
    /\ pc = "done"
    /\ Len(docs) = 2
    /\ Get(docs[1], "@meta") = None
    /\ Get(docs[2], "@meta") = Meta(PStr(<<"g2">>))
    /\ Creator = <<"g2">>

Reads == SelectSeq(trace, LAMBDA ev : ev.e = "read")
Failures == Positions("error") \cup Positions("notlist")

\* C9: sources are read one at a time in command-line order, each at most once
\* and exactly once in a run that succeeds; source k+1 is read only after source
\* k passed the items check; once a source fails nothing more is read, and the
\* exit code is that of the first failing source: 1 for a load failure, 2 for
\* items that the check of line 138 rejects.
C9_SequentialReads ==
    /\ \A i \in 1..Len(Reads) : Reads[i].k = i
    /\ Len(Reads) = Len(docs) /\ Len(Reads) <= Len(args.sources)
    /\ exit_code = 0 => Len(Reads) = Len(args.sources)
    /\ \A k \in 2..Len(args.sources) : \A r \in At("read", k) :
            \E i \in At("accept", k - 1) : i < r
    /\ \A f \in Failures :
            /\ f = Len(trace)
            /\ trace[f].k = Len(docs)
            /\ \A k \in 1..(Len(docs) - 1) :
                    docs[k] # LoadError /\ IsList(items_of(docs[k]))
    /\ exit_code = 1 <=> (Positions("error") # {} /\ docs[Len(docs)] = LoadError)
    /\ exit_code = 2 <=>
        (Positions("notlist") # {} /\ docs[Len(docs)] # LoadError
            /\ ~IsList(items_of(docs[Len(docs)])))
    /\ (Ended /\ exit_code # 0) => Failures # {}

C9_Witness ==
    /\ exit_code = 2
    /\ Len(args.sources) > 1
    /\ Len(docs) = 1
    /\ Len(Reads) = 1

(***************************************************************************)
(* Properties of the merge                                                 *)
(***************************************************************************)
\* the source-order concatenation of the items lists of the accepted sources
RECURSIVE ConcatItems(_)
ConcatItems(ds) ==
    IF ds = <<>> THEN <<>> ELSE items_of(Head(ds)).l \o ConcatItems(Tail(ds))

Concatenation == ConcatItems(docs)
AfterDedup == pc \in {"build", "write", "done"}

\* the positions of the concatenation that hold the first item of their key
FirstOfKey ==
    {i \in 1..Len(Concatenation) :
        \A j \in 1..(i - 1) :
            item_dedup_key(Concatenation[j]) # item_dedup_key(Concatenation[i])}

\* the subsequence of seq at the positions in S
RECURSIVE Pick(_, _, _)
Pick(seq, S, i) ==
    IF i > Len(seq) THEN <<>>
    ELSE (IF i \in S THEN <<seq[i]>> ELSE <<>>) \o Pick(seq, S, i + 1)

KeysOf(seq) == {item_dedup_key(seq[i]) : i \in 1..Len(seq)}

\* C3: with deduplication the serializer receives the subsequence of the
\* concatenation that holds the first item of each key: no two survivors share a
\* key, every key is still represented and the order is unchanged; with
\* --no-dedup it receives the whole concatenation.
C3_FirstOfEachKey ==
    AfterDedup =>
        IF args.no_dedup THEN all_items = Concatenation
        ELSE /\ all_items = Pick(Concatenation, FirstOfKey, 1)
             /\ \A i, j \in 1..Len(all_items) :
                    i # j => item_dedup_key(all_items[i]) # item_dedup_key(all_items[j])
             /\ KeysOf(all_items) = KeysOf(Concatenation)

C3_Witness ==
    /\ AfterDedup
    /\ ~args.no_dedup
    /\ Len(Concatenation) = 3
    /\ Len(all_items) = 2
    /\ item_dedup_key(Concatenation[1]) = item_dedup_key(Concatenation[3])
    /\ Concatenation[1] # Concatenation[3]

(***************************************************************************)
(* Properties of the serializer                                            *)
(***************************************************************************)
Subs(f) == SelectSeq(gpx, LAMBDA g : g.k = "sub" /\ g.f = f)
Built == pc \in {"write", "done"}

\* a JSON number: an int or a float, not a bool
IsJsonNumber(v) == v.t \in {"int", "float"}
Lat(item) == Get(PyOr(Get(item, "location"), EmptyDict), "lat")
Lng(item) == Get(PyOr(Get(item, "location"), EmptyDict), "lng")
WithNumbers == SelectSeq(all_items, LAMBDA it : IsJsonNumber(Lat(it)) /\ IsJsonNumber(Lng(it)))

\* C5: the waypoints are, in order, those of the items whose lat and lng are both
\* JSON numbers, one each; an item whose location, lat or lng is missing, null, a
\* string or a boolean has none.
C5_OneWptPerNumericItem ==
    Built =>
        /\ Len(Subs("lat")) = Len(WithNumbers)
        /\ Len(Subs("lon")) = Len(WithNumbers)
        /\ \A i \in 1..Len(WithNumbers) :
                /\ i <= Len(Subs("lat")) /\ Subs("lat")[i].s = PyStr(Lat(WithNumbers[i]))
                /\ i <= Len(Subs("lon")) /\ Subs("lon")[i].s = PyStr(Lng(WithNumbers[i]))

\* C10: the printed count, the number of "<wpt " in the text, is the number of
\* merged items with numeric lat and lng, whatever the text fields hold.
C10_CountIsNumericItems ==
    pc = "done" => printed = Len(WithNumbers)

NameByRule(item) ==
    IF Truthy(Get(item, "title")) THEN Get(item, "title")
    ELSE IF Get(item, "id") # None THEN Get(item, "id")
    ELSE PStr(<<"Untitled">>)

\* the items the serializer gives a waypoint
Emitted == SelectSeq(all_items, LAMBDA it : build_wpt(it) # NoWpt)

\* C7: the name of a waypoint is the title when it is not empty, else the id when
\* the item has one, whatever its value, else Untitled.
C7_NameIsTitleElseIdElseUntitled ==
    Built =>
        /\ Len(Subs("name")) = Len(Emitted)
        /\ \A i \in 1..Len(Emitted) : Subs("name")[i].s = esc(NameByRule(Emitted[i]))

\* XML text with no raw <, > or double quote, where every & starts an entity
Entities == {"amp;", "lt;", "gt;", "quot;", "#x27;"}
NoRaw(x) ==
    /\ \A i \in 1..Len(x) : x[i] \notin {"<", ">", "\""}
    /\ \A i \in 1..Len(x) : x[i] = "&" => (i < Len(x) /\ x[i + 1] \in Entities)

\* what an XML parser reads back
RECURSIVE Unescape(_)
Unescape(x) ==
    IF x = <<>> THEN <<>>
    ELSE IF Head(x) = "&" /\ Len(x) >= 2 /\ x[2] \in Entities
    THEN << CASE x[2] = "amp;" -> "&" [] x[2] = "lt;" -> "<" [] x[2] = "gt;" -> ">"
              [] x[2] = "quot;" -> "\"" [] x[2] = "#x27;" -> "'" >>
         \o Unescape(Tail(Tail(x)))
    ELSE <<Head(x)>> \o Unescape(Tail(x))

TextSubs == SelectSeq(gpx, LAMBDA g : g.k = "sub" /\ g.f \notin {"lat", "lon", "time"})

\* the str of a field, the empty string when it is missing or null
FieldText(item, key) == IF Get(item, key) = None THEN <<>> ELSE PyStr(Get(item, key))

\* C8: whatever the text fields of the item and @meta.generator hold, the text
\* placed in an element or an attribute has no raw <, >, & or double quote and
\* reads back as the field; a title <A & B> gives &lt;A &amp; B&gt;; a missing or
\* null field gives the empty string, never the text None.
C8_TextIsEscaped ==
    Built =>
        /\ \A i \in 1..Len(TextSubs) :
                NoRaw(TextSubs[i].s) /\ "None" \notin {TextSubs[i].s[j] : j \in 1..Len(TextSubs[i].s)}
        /\ Creator = esc(generator_of(any_meta))
        /\ Unescape(Creator) = PyStr(generator_of(any_meta))
        /\ Emitted # <<>> =>
            LET it == Emitted[1]
                one(f) == Subs(f)[1].s
            IN  /\ Len(Emitted) = 1
                /\ Get(it, "title") = Example =>
                    one("name") = <<"&", "lt;", "A", " ", "&", "amp;", " ", "B", "&", "gt;">>
                /\ Truthy(Get(it, "title")) => Unescape(one("name")) = FieldText(it, "title")
                /\ Unescape(one("desc")) =
                    Join(<<"\n">>,
                         (IF FieldText(it.location, "address") # <<>>
                          THEN <<FieldText(it.location, "address")>> ELSE <<>>)
                         \o (IF FieldText(it, "marker") # <<>>
                             THEN << <<"marker: ">> \o FieldText(it, "marker") >> ELSE <<>>))
                /\ \A f \in {"href", "type"} :
                    IF FieldText(it, f) = <<>> THEN Subs(f) = <<>>
                    ELSE Unescape(one(f)) = FieldText(it, f)
                /\ \A f \in {"siteId", "status", "marker"} :
                    IF FieldText(it, f) = <<>> THEN Subs("sa:" \o f) = <<>>
                    ELSE Unescape(one("sa:" \o f)) = FieldText(it, f)
                /\ Truthy(Get(it, "id")) => Unescape(one("sa:id")) = FieldText(it, "id")

C8_Witness ==
    /\ Built
    /\ Len(Emitted) = 1
    /\ Get(Emitted[1], "title") = PStr(<<"\"", "&">>)
    /\ Get(Emitted[1], "id") = Quoted
    /\ any_meta = Meta(Quoted)
    /\ Subs("name")[1].s = <<"&", "quot;", "&", "amp;">>
    /\ Subs("href") # <<>>

(***************************************************************************)
(* Properties of derive_output_path                                        *)
(***************************************************************************)
\* the name of the last component of a source: of the URL's path, or of the file
LastSegment(src) ==
    IF StartsWithHttp(src) THEN PathName(ParsePath(UrlPath(src)))
    ELSE PathName(ParsePath(src))

\* the stem of a name: the name without its extension, which runs from the last
\* dot when that dot is neither the first nor the last character
IsStemOf(stem, name) ==
    LET dots == {d \in 1..Len(name) : name[d] = "." /\ \A j \in (d + 1)..Len(name) : name[j] # "."}
    IN  IF \E d \in dots : 1 < d /\ d < Len(name)
        THEN \A d \in dots : stem = SubSeq(name, 1, d - 1)
        ELSE stem = name

\* C6: an explicit output path (a string that is not empty) is returned as it
\* is, for any number of sources; otherwise the name is the stem of the first
\* source (of a local file, or of the last segment of a URL's path, or merged
\* when that is empty) followed by .gpx for one source and _merged.gpx for more
\* than one.
C6_OutputPath ==
    Built =>
        LET first == args.sources[1]
            ending == IF Len(args.sources) = 1 THEN <<".", "gpx">>
                      ELSE <<"_merged", ".", "gpx">>
            name == PathName(out_path)
            stem == SubSeq(name, 1, Len(name) - Len(ending))
        IN  IF args.output \notin {None, PStr(<<>>)}
            THEN out_path = ParsePath(args.output.s)
            ELSE /\ ~out_path.err
                 /\ Len(name) > Len(ending)
                 /\ SubSeq(name, Len(name) - Len(ending) + 1, Len(name)) = ending
                 /\ IF LastSegment(first) = <<>> THEN stem = <<"merged">>
                    ELSE IsStemOf(stem, LastSegment(first))
                 /\ IF StartsWithHttp(first) THEN Len(out_path.parts) = 1 /\ ~out_path.root
                    ELSE /\ out_path.root = ParsePath(first).root
                         /\ Len(out_path.parts) = Len(ParsePath(first).parts)
                         /\ \A i \in 1..(Len(out_path.parts) - 1) :
                                out_path.parts[i] = ParsePath(first).parts[i]

C6_Witness ==
    /\ Built
    /\ args.output = PStr(<<>>)
    /\ Len(args.sources) = 2
    /\ args.sources[1] = <<"HTTP://", "h", "/", "a", ".">>
    /\ out_path.parts = << <<"a", ".", "_merged", ".", "gpx">> >>

====
